---- MODULE Spec2Model ----
(***************************************************************************)
(* Prompt-record lifecycle and evaluation report of the Streamlit image    *)
(* generator (src/main.py).                                                *)
(*                                                                         *)
(* The store is the SQLite table `prompts` (rows, in rowid order) and the  *)
(* files under images/.  One run of main() is a sequence of steps: Rerun   *)
(* (init_db, makedirs), GenerateImage, ShowHistory, then GenerateReport,   *)
(* or the steps of delete_prompt_history, or EndRun.  Streamlit reruns     *)
(* main() once per interaction, so at most one button is true in a run.    *)
(*                                                                         *)
(* Text is a sequence of one-character strings; a report is a sequence of  *)
(* lines.  uuid.uuid4() is a generator of fresh tokens (a counter);        *)
(* datetime.now() reads the variable clock.                                *)
(***************************************************************************)
EXTENDS Integers, Sequences, FiniteSets, TLC

VARIABLES
    tableExists,   \* prompts.db holds the table `prompts`
    imagesDir,     \* the directory images/ exists
    rows,          \* the rows of `prompts`, in rowid order
    files,         \* the image files that exist on storage
    uuidNext,      \* state of the uuid4 generator: the next fresh token
    clock,         \* datetime.now(), in seconds
    pc,            \* position in main(): idle, form, history, buttons, deleting
    button,        \* the button that triggered this run of main()
    history,       \* main's local `history` (line 131)
    report,        \* the report shown by this run (<<>>: none)
    image_paths,   \* delete_prompt_history's local list (line 87)
    idx,           \* position of its for loop in image_paths (line 90)
    preRows,       \* history variable: rows when this run's handler started
    removed,       \* history variable: files removed by the running delete
    saved,         \* history variable: the arguments of this run's save_prompt
    failure,       \* history variable: what raised in this run
    result,        \* what the run reported to the user
    initCalls,     \* history variable: calls of init_db so far, counted to 2
    storedIds      \* history variable: the id of every row ever stored

vars == <<tableExists, imagesDir, rows, files, uuidNext, clock, pc, button,
          history, report, image_paths, idx, preRows, removed, saved,
          failure, result, initCalls, storedIds>>

(* ------------------------------ bounds -------------------------------- *)

\* uuid4 tokens the model may draw.
MaxUuid == 8

\* Seconds the clock may advance.
MaxClock == 1

(* ------------------------------- text --------------------------------- *)

realistic == <<"r","e","a","l","i","s","t","i","c">>

cyberpunk == <<"c","y","b","e","r","p","u","n","k">>

cartoon == <<"c","a","r","t","o","o","n">>

\* st.selectbox("Expected Style:", ...)
StyleSet == {realistic, cyberpunk, cartoon}

\* What the user may have typed into st.text_input: nothing, a prompt naming
\* a style in another case, a prompt naming no style.
PromptSet ==
    { <<>>,
      <<"C","a","r","t","o","o","n"," ","c","a","t">>,
      <<"a"," ","c","i","t","y">> }

\* str.lower() on one character.
LowerChar(c) ==
    CASE c = "A" -> "a" [] c = "B" -> "b" [] c = "C" -> "c" [] c = "D" -> "d"
      [] c = "E" -> "e" [] c = "F" -> "f" [] c = "G" -> "g" [] c = "H" -> "h"
      [] c = "I" -> "i" [] c = "J" -> "j" [] c = "K" -> "k" [] c = "L" -> "l"
      [] c = "M" -> "m" [] c = "N" -> "n" [] c = "O" -> "o" [] c = "P" -> "p"
      [] c = "Q" -> "q" [] c = "R" -> "r" [] c = "S" -> "s" [] c = "T" -> "t"
      [] c = "U" -> "u" [] c = "V" -> "v" [] c = "W" -> "w" [] c = "X" -> "x"
      [] c = "Y" -> "y" [] c = "Z" -> "z" [] OTHER -> c

Lower_Identity(s) == s

\* str.lower()
Lower(s) == [i \in 1..Len(s) |-> LowerChar(s[i])]

\* Python's `needle in hay` on strings.
IsSubstring(needle, hay) ==
    \E k \in 0..(Len(hay) - Len(needle)) :
        \A j \in 1..Len(needle) : hay[k + j] = needle[j]

(* --------------------------- record store ----------------------------- *)

\* mock_data of init_db.
MockData ==
    << << <<"a"," ","f","a","n","t","a","s","y"," ","c","a","s","t","l","e"," ",
            "i","n"," ","t","h","e"," ","c","l","o","u","d","s">>, realistic >>,
       << <<"a"," ","f","u","t","u","r","i","s","t","i","c"," ","r","o","b","o",
            "t"," ","c","h","e","f"," ","i","n"," ","a"," ","k","i","t","c","h",
            "e","n">>, cyberpunk >>,
       << <<"a"," ","p","a","n","d","a"," ","r","i","d","i","n","g"," ","a"," ",
            "b","i","c","y","c","l","e"," ","i","n"," ","s","p","a","c","e">>,
          cartoon >> >>

\* The empty image_path "".
NoPath == <<>>

\* f"images/{str(uuid.uuid4())}.png" for the token u.
ImagePath(u) == <<"images", u, ".png">>

\* The row an INSERT stores.
Row(id, prompt, style, image_path, now) ==
    [id |-> id, prompt |-> prompt, expected_style |-> style,
     image_path |-> image_path, timestamp |-> now]

InsertRow_Front(r, rec) == <<rec>> \o r

\* INSERT INTO prompts: the new row gets the highest rowid.
InsertRow(r, rec) == Append(r, rec)

ShouldSeed_Always(r) == TRUE

\* SELECT COUNT(*) FROM prompts ... == 0
ShouldSeed(r) == Len(r) = 0

\* The mock rows, with ids u, u+1, ... drawn from uuid4.
SeedRows(u, now) ==
    [i \in 1..Len(MockData) |->
        Row(u + i - 1, MockData[i][1], MockData[i][2], NoPath, now)]

\* Tokens init_db draws from uuid4 on the rows r.
InitDbUuids(r) == IF ShouldSeed(r) THEN Len(MockData) ELSE 0

\* The rows after init_db.
init_db(r, u, now) == IF ShouldSeed(r) THEN r \o SeedRows(u, now) ELSE r

\* The rows after save_prompt, whose id is the token u.
save_prompt(r, u, prompt, style, image_path, now) ==
    InsertRow(r, Row(u, prompt, style, image_path, now))

\* SELECT prompt, expected_style, image_path, timestamp FROM prompts
get_prompt_history(r) ==
    [i \in 1..Len(r) |->
        <<r[i].prompt, r[i].expected_style, r[i].image_path, r[i].timestamp>>]

(* ------------------------------ report -------------------------------- *)

\* "Evaluation Report\n" + "="*20 + "\n"
ReportHeader == << <<"Evaluation Report">>, <<"====================">> >>

\* The shown report when the report button was not pressed.
NoReport == <<>>

\* "Aligned" if style.lower() in prompt.lower() else "Not fully aligned"
Alignment(prompt, style) ==
    IF IsSubstring(Lower(style), Lower(prompt)) THEN "Aligned"
    ELSE "Not fully aligned"

\* The lines one record adds to the report; the last line is empty.
ReportBlock(rec) ==
    IF rec[3] # NoPath
    THEN << <<"Prompt: ", rec[1]>>, <<"Style: ", rec[2]>>,
            <<"Image: ", rec[3]>>,
            <<"Alignment: ", Alignment(rec[1], rec[2])>>,
            <<"Timestamp: ", rec[4]>>, <<>> >>
    ELSE << <<"Prompt: ", rec[1]>>, <<"Style: ", rec[2]>>,
            <<"Image: ", <<"Not generated">> >>,
            <<"Alignment: ", "N/A">>,
            <<"Timestamp: ", rec[4]>>, <<>> >>

RECURSIVE ReportBlocks(_)
\* The for loop of generate_report.
ReportBlocks(h) ==
    IF h = <<>> THEN <<>> ELSE ReportBlock(Head(h)) \o ReportBlocks(Tail(h))

generate_report_Clock(h) ==
    ReportHeader \o ReportBlocks([i \in 1..Len(h) |-> <<h[i][1], h[i][2], h[i][3], clock>>])

generate_report(h) == ReportHeader \o ReportBlocks(h)

(* --------------------------- delete history --------------------------- *)

SelectImagePaths_All(r) == [i \in 1..Len(r) |-> r[i].image_path]

\* SELECT image_path FROM prompts WHERE image_path != ''
SelectImagePaths(r) ==
    LET nonEmpty(row) == row.image_path # NoPath
        kept == SelectSeq(r, nonEmpty)
    IN  [i \in 1..Len(kept) |-> kept[i].image_path]

\* os.path.exists(path)
PathExists(path, fs) == path \in fs

LoopDone_Early(paths, i) == TRUE

\* The for loop over image_paths has run out.
LoopDone(paths, i) == i > Len(paths)

DeleteAll_Nothing(r) == r

\* DELETE FROM prompts
DeleteAll(r) == <<>>

(* ---------------------------- generation ------------------------------ *)

\* What load_model() and pipe(prompt) can do: an image, load_model returned
\* None (pipe(prompt) then raises TypeError), or the pipeline raised.
BackendOutcomes == {"image", "no_model", "generation_error"}

ReachesSavePrompt_Always(pipeOk, saveOk) == TRUE

\* Inside the try block, save_prompt runs only if nothing before it raised.
ReachesSavePrompt(pipeOk, saveOk) == pipeOk /\ saveOk

(* ------------------------------ actions ------------------------------- *)

Init ==
    /\ tableExists = FALSE
    /\ imagesDir = FALSE
    /\ rows = <<>>
    /\ files = {}
    /\ uuidNext = 0
    /\ clock = 0
    /\ pc = "idle"
    /\ button = "none"
    /\ history = <<>>
    /\ report = NoReport
    /\ image_paths = <<>>
    /\ idx = 1
    /\ preRows = <<>>
    /\ removed = {}
    /\ saved = <<>>
    /\ failure = "none"
    /\ result = "none"
    /\ initCalls = 0
    /\ storedIds = {}

\* Time passes.
Tick ==
    /\ clock < MaxClock
    /\ clock' = clock + 1
    /\ UNCHANGED <<tableExists, imagesDir, rows, files, uuidNext, pc, button,
                   history, report, image_paths, idx, preRows, removed, saved,
                   failure, result, initCalls, storedIds>>

\* An interaction starts a run of main(): init_db(), makedirs("images").
Rerun(b) ==
    /\ pc = "idle"
    /\ uuidNext + InitDbUuids(rows) + (IF b = "generate" THEN 2 ELSE 0) <= MaxUuid
    /\ tableExists' = TRUE
    /\ rows' = init_db(rows, uuidNext, clock)
    /\ uuidNext' = uuidNext + InitDbUuids(rows)
    /\ imagesDir' = TRUE
    /\ button' = b
    /\ pc' = IF b = "generate" THEN "form" ELSE "history"
    /\ history' = <<>>
    /\ report' = NoReport
    /\ image_paths' = <<>>
    /\ idx' = 1
    /\ preRows' = rows'
    /\ removed' = {}
    /\ saved' = <<>>
    /\ failure' = "none"
    /\ result' = "none"
    /\ initCalls' = IF initCalls < 2 THEN initCalls + 1 ELSE initCalls
    /\ storedIds' = storedIds \cup {rows'[i].id : i \in 1..Len(rows')}
    /\ UNCHANGED <<files, clock>>

\* Lines 117-127: the generate button with the typed prompt.
GenerateImage(prompt, style, backend, saveOk, insertOk) ==
    /\ pc = "form"
    /\ pc' = "history"
    /\ IF prompt = <<>>
       THEN UNCHANGED <<rows, files, uuidNext, saved, failure, result>>
       ELSE LET pipeOk == backend = "image"
                wrote == pipeOk /\ saveOk
                path == ImagePath(uuidNext)
                calls == ReachesSavePrompt(pipeOk, saveOk)
            IN  /\ files' = IF wrote THEN files \cup {path} ELSE files
                /\ rows' = IF calls /\ insertOk
                           THEN save_prompt(rows, uuidNext + 1, prompt, style, path, clock)
                           ELSE rows
                /\ uuidNext' = uuidNext + (IF pipeOk THEN 1 ELSE 0)
                                        + (IF calls THEN 1 ELSE 0)
                /\ saved' = IF calls THEN <<prompt, style, path>> ELSE <<>>
                /\ failure' = IF ~pipeOk THEN "backend"
                              ELSE IF ~saveOk THEN "image_save"
                              ELSE IF ~insertOk THEN "insert" ELSE "none"
                /\ result' = IF pipeOk /\ saveOk /\ insertOk THEN "shown" ELSE "error"
    /\ storedIds' = storedIds \cup {rows'[i].id : i \in 1..Len(rows')}
    /\ UNCHANGED <<tableExists, imagesDir, clock, button, history, report,
                   image_paths, idx, preRows, removed, initCalls>>

\* Line 131: history = get_prompt_history(), then the history and gallery.
ShowHistory ==
    /\ pc = "history"
    /\ history' = get_prompt_history(rows)
    /\ pc' = "buttons"
    /\ UNCHANGED <<tableExists, imagesDir, rows, files, uuidNext, clock, button,
                   report, image_paths, idx, preRows, removed, saved, failure,
                   result, initCalls, storedIds>>

\* Lines 148-151: the report button.
GenerateReport ==
    /\ pc = "buttons"
    /\ button = "report"
    /\ report' = generate_report(history)
    /\ result' = "report"
    /\ pc' = "idle"
    /\ UNCHANGED <<tableExists, imagesDir, rows, files, uuidNext, clock, button,
                   history, image_paths, idx, preRows, removed, saved, failure,
                   initCalls, storedIds>>

\* Lines 84-87: delete_prompt_history collects the paths.
ClearSelect ==
    /\ pc = "buttons"
    /\ button = "clear"
    /\ image_paths' = SelectImagePaths(rows)
    /\ idx' = 1
    /\ pc' = "deleting"
    /\ UNCHANGED <<tableExists, imagesDir, rows, files, uuidNext, clock, button,
                   history, report, preRows, removed, saved, failure, result,
                   initCalls, storedIds>>

\* Lines 90-92: one turn of the loop.  os.remove may raise; nothing catches
\* it, so delete_prompt_history and the run end there.
RemoveImage(removeOk) ==
    /\ pc = "deleting"
    /\ ~LoopDone(image_paths, idx)
    /\ LET path == image_paths[idx]
       IN  IF ~PathExists(path, files)
           THEN /\ idx' = idx + 1
                /\ UNCHANGED <<files, removed, pc, failure, result, image_paths>>
           ELSE IF removeOk
           THEN /\ files' = files \ {path}
                /\ removed' = removed \cup {path}
                /\ idx' = idx + 1
                /\ UNCHANGED <<pc, failure, result, image_paths>>
           ELSE /\ failure' = "remove"
                /\ result' = "exception"
                /\ pc' = "idle"
                /\ image_paths' = <<>>
                /\ idx' = 1
                /\ UNCHANGED <<files, removed>>
    /\ UNCHANGED <<tableExists, imagesDir, rows, uuidNext, clock, button,
                   history, report, preRows, saved, initCalls, storedIds>>

\* Lines 95-97 and 156: DELETE, commit, st.success.
ClearTable ==
    /\ pc = "deleting"
    /\ LoopDone(image_paths, idx)
    /\ rows' = DeleteAll(rows)
    /\ result' = "success"
    /\ pc' = "idle"
    /\ image_paths' = <<>>
    /\ idx' = 1
    /\ UNCHANGED <<tableExists, imagesDir, files, uuidNext, clock, button,
                   history, report, preRows, removed, saved, failure, initCalls,
                   storedIds>>

\* No button of the lower half was pressed: main() returns.
EndRun ==
    /\ pc = "buttons"
    /\ button \in {"none", "generate"}
    /\ pc' = "idle"
    /\ UNCHANGED <<tableExists, imagesDir, rows, files, uuidNext, clock, button,
                   history, report, image_paths, idx, preRows, removed, saved,
                   failure, result, initCalls, storedIds>>

Next ==
    \/ Tick
    \/ \E b \in {"none", "generate", "report", "clear"} : Rerun(b)
    \/ \E prompt \in PromptSet, style \in StyleSet, backend \in BackendOutcomes,
          saveOk \in BOOLEAN, insertOk \in BOOLEAN :
          GenerateImage(prompt, style, backend, saveOk, insertOk)
    \/ ShowHistory
    \/ GenerateReport
    \/ ClearSelect
    \/ \E removeOk \in BOOLEAN : RemoveImage(removeOk)
    \/ ClearTable
    \/ EndRun

Spec == Init /\ [][Next]_vars

(* ------------------------------ claims -------------------------------- *)

\* The non-empty image paths the rows r refer to.
ReferencedPaths(r) ==
    {r[i].image_path : i \in 1..Len(r)} \ {NoPath}

\* The run of main() that pressed "Clear All History" has ended.
ClearEnded == pc = "idle" /\ button = "clear" /\ result # "none"

\* C1: when os.remove raises on one image during delete_prompt_history, the
\* operation still goes on: every referenced artifact is attempted, all rows
\* are deleted and committed, and the caller is told of success.
C1_RemoveFailureTolerated ==
    (ClearEnded /\ failure = "remove") =>
        /\ rows = <<>>
        /\ result = "success"

\* C2: after delete_prompt_history completes, get_prompt_history returns the
\* empty sequence and no image that a record referred to just before the
\* deletion still exists on storage.
C2_DeleteLeavesNothing ==
    (ClearEnded /\ result = "success") =>
        /\ get_prompt_history(rows) = <<>>
        /\ \A p \in ReferencedPaths(preRows) : ~PathExists(p, files)

\* C2's case: a delete completed that had two referenced images to remove.
C2_Witness ==
    /\ ClearEnded
    /\ result = "success"
    /\ Cardinality(ReferencedPaths(preRows)) = 2
    /\ removed = ReferencedPaths(preRows)

\* C3: init_db seeds only an empty table: on an empty store it leaves the 3
\* seed rows, on a non-empty store it adds nothing, so a second call on an
\* originally empty store leaves the row count of the first.
C3_InitDbSeedsOnce ==
    [][(pc = "idle" /\ pc' # "idle") =>
          IF Len(rows) = 0
          THEN Len(rows') = Len(MockData)
          ELSE rows' = rows]_vars

\* C3's case: init_db has run twice on a store that started empty, and the
\* store holds the seed rows once.
C3_Witness ==
    /\ initCalls = 2
    /\ pc = "history"
    /\ uuidNext = Len(MockData)
    /\ Len(rows) = Len(MockData)

\* The ids of the rows r are pairwise distinct.
DistinctIds(r) ==
    \A i, j \in 1..Len(r) : i # j => r[i].id # r[j].id

\* C4: a save_prompt call adds exactly one row, after the rows already
\* stored, with the prompt, style and image path as supplied, so that
\* get_prompt_history returns the old records followed by the new one; the
\* new row's id is the id of no row ever stored, and stored ids are distinct.
C4_SaveThenList ==
    /\ [](DistinctIds(rows) /\ (pc = "buttons" => history = get_prompt_history(rows)))
    /\ [][(pc = "form" /\ saved' # <<>> /\ failure' = "none") =>
             /\ get_prompt_history(rows') =
                    Append(get_prompt_history(rows),
                           <<saved'[1], saved'[2], saved'[3], clock>>)
             /\ rows'[Len(rows')].id \notin storedIds]_vars

\* C4's case: two save_prompt calls have followed the seeding, and the
\* history was read back.
C4_Witness ==
    /\ pc = "buttons"
    /\ button = "generate"
    /\ result = "shown"
    /\ Len(history) = Len(MockData) + 2

\* C5: when the generation backend fails or writing the image fails, the
\* request inserts no record (save_prompt is not reached, the rows are those
\* from before the request) and the error is shown.
C5_FailedGenerationInsertsNothing ==
    (pc = "history" /\ button = "generate" /\ failure \in {"backend", "image_save"}) =>
        /\ rows = preRows
        /\ saved = <<>>
        /\ result = "error"

\* C5's case: a generate request on a seeded store whose image could not be
\* written.
C5_Witness ==
    /\ pc = "history"
    /\ button = "generate"
    /\ failure = "image_save"
    /\ Len(preRows) >= Len(MockData)

\* C6: the paths delete_prompt_history collects are exactly the non-empty
\* image_path values stored just before the call, each once, none of them
\* the empty path.
C6_CollectedPaths ==
    pc = "deleting" =>
        /\ \A i, j \in 1..Len(image_paths) : i # j => image_paths[i] # image_paths[j]
        /\ \A i \in 1..Len(image_paths) : image_paths[i] # NoPath
        /\ {image_paths[i] : i \in 1..Len(image_paths)} = ReferencedPaths(preRows)

\* C6's case: the delete collected from a store with two image records and
\* the seed records, whose image_path is empty.
C6_Witness ==
    /\ pc = "deleting"
    /\ Len(image_paths) = 2
    /\ \E i \in 1..Len(preRows) : preRows[i].image_path = NoPath

\* The style occurs in the prompt, letter case ignored.
OccursIgnoringCase(style, prompt) ==
    \E k \in 0..(Len(prompt) - Len(style)) :
        \A j \in 1..Len(style) : LowerChar(prompt[k + j]) = LowerChar(style[j])

\* The line at position n of the report block of record i.
BlockLine(rep, i, n) == rep[Len(ReportHeader) + 6 * (i - 1) + n]

C8_ReportShape ==
    [][(report = NoReport /\ report' # NoReport) =>
          /\ Len(report') = Len(ReportHeader) + 6 * Len(history)
          /\ SubSeq(report', 1, Len(ReportHeader)) = ReportHeader
          /\ \A i \in 1..Len(history) :
                /\ BlockLine(report', i, 1) = <<"Prompt: ", history[i][1]>>
                /\ BlockLine(report', i, 2) = <<"Style: ", history[i][2]>>
                /\ BlockLine(report', i, 5) = <<"Timestamp: ", history[i][4]>>
                /\ BlockLine(report', i, 6) = <<>>
          /\ history' = history
          /\ rows' = rows
          /\ files' = files]_vars

\* C8's case: a report over the seed records and two image records, made
\* after the clock moved past the records' timestamps.
C8_Witness ==
    /\ report # NoReport
    /\ Len(history) = Len(MockData) + 2
    /\ \E i \in 1..Len(history) : history[i][4] < clock

C10_ReferentialIntegrity ==
    pc = "idle" =>
        /\ \A p \in ReferencedPaths(rows) : PathExists(p, files)
        /\ \A f \in files : f \in ReferencedPaths(rows)

====
